---------------------------- MODULE Spec2Model ----------------------------
(***************************************************************************)
(* Clinic patient tracker (src/app.py): four JSON handlers over one remote *)
(* spreadsheet.  The sheet is a sequence of rows, a row a sequence of      *)
(* cells, a cell a text.  A text is a sequence of one-character strings,   *)
(* so that lower(), strip(), split(), int() and the A1 column letters are  *)
(* computed character by character as Python computes them.               *)
(***************************************************************************)
EXTENDS Integers, Sequences, FiniteSets, TLC

VARIABLES sheet, reqs, resp, fault, lastWritten, nattend, ncreate

vars == <<sheet, reqs, resp, fault, lastWritten, nattend, ncreate>>

(* ------------------------------ bounds -------------------------------- *)

\* Largest number of rows the create requests of one behaviour append.
MaxCreates == 1
\* Largest number of attend requests with action "confirm" in one behaviour.
MaxAttends == 2

(* ------------------------- text primitives ---------------------------- *)

ascii_uppercase ==
    <<"A", "B", "C", "D", "E", "F", "G", "H", "I", "J", "K", "L", "M",
      "N", "O", "P", "Q", "R", "S", "T", "U", "V", "W", "X", "Y", "Z">>

ascii_lowercase ==
    <<"a", "b", "c", "d", "e", "f", "g", "h", "i", "j", "k", "l", "m",
      "n", "o", "p", "q", "r", "s", "t", "u", "v", "w", "x", "y", "z">>

digits == <<"0", "1", "2", "3", "4", "5", "6", "7", "8", "9">>

IsUpper(c) == \E i \in 1..26 : ascii_uppercase[i] = c

IsDigit(c) == \E i \in 1..10 : digits[i] = c

DigitVal(c) == (CHOOSE i \in 1..10 : digits[i] = c) - 1

\* The control characters '\x0b' (vertical tab) and '\x1c', '\x1d', '\x1e',
\* '\x1f' (file, group, record and unit separator): each stands raw between
\* its quotes.
chVT == ""
chFS == ""
chGS == ""
chRS == ""
chUS == ""

\* The characters str.strip() removes at the ends of a text (str.isspace).
\* Python also removes '\x85', '\xa0' and the blanks beyond Latin-1, which are
\* not one-character strings here.
IsSpace(c) == c \in {" ", "\t", "\n", "\r", "\f", chVT, chFS, chGS, chRS, chUS}

\* The characters int() skips at the ends of a text: of the ASCII characters
\* only ' ', '\t', '\n', '\x0b', '\f' and '\r'; int('3\x1c') raises ValueError.
IsIntSpace(c) == c \in {" ", "\t", "\n", "\r", "\f", chVT}

\* A faulty variant of LowerChar: the case is kept.
LowerCharIdentity(c) == c

\* str.lower() on one character.
LowerChar(c) ==
    IF IsUpper(c)
    THEN ascii_lowercase[CHOOSE i \in 1..26 : ascii_uppercase[i] = c]
    ELSE c

RECURSIVE Lower(_)
\* str.lower()
Lower(t) == IF t = <<>> THEN <<>> ELSE <<LowerChar(Head(t))>> \o Lower(Tail(t))

RECURSIVE LStrip(_)
LStrip(t) == IF t # <<>> /\ IsSpace(Head(t)) THEN LStrip(Tail(t)) ELSE t

RECURSIVE RStrip(_)
RStrip(t) ==
    IF t # <<>> /\ IsSpace(t[Len(t)]) THEN RStrip(SubSeq(t, 1, Len(t) - 1)) ELSE t

\* A faulty variant of Strip: trailing blanks are kept.
StripLeftOnly(t) == LStrip(t)

\* str.strip()
Strip(t) == RStrip(LStrip(t))

RECURSIVE SplitFrom(_, _, _)
SplitFrom(t, sep, cur) ==
    IF t = <<>> THEN <<cur>>
    ELSE IF Head(t) = sep THEN <<cur>> \o SplitFrom(Tail(t), sep, <<>>)
    ELSE SplitFrom(Tail(t), sep, Append(cur, Head(t)))

\* str.split(sep) for a one-character separator: "" splits into [""].
Split(t, sep) == SplitFrom(t, sep, <<>>)

RECURSIVE Join(_, _)
\* sep.join(list)
Join(list, sep) ==
    IF list = <<>> THEN <<>>
    ELSE IF Len(list) = 1 THEN list[1]
    ELSE list[1] \o sep \o Join(Tail(list), sep)

RECURSIVE NatToStr(_)
NatToStr(n) ==
    IF n < 10 THEN <<digits[n + 1]>>
    ELSE Append(NatToStr(n \div 10), digits[(n % 10) + 1])

\* Decimal text of an integer: str(n), and the text the sheet shows for a number cell.
IntToStr(n) == IF n < 0 THEN <<"-">> \o NatToStr(-n) ELSE NatToStr(n)

RECURSIVE DigitsValue(_, _)
DigitsValue(t, acc) ==
    IF t = <<>> THEN acc
    ELSE IF Head(t) = "_" THEN DigitsValue(Tail(t), acc)
    ELSE DigitsValue(Tail(t), acc * 10 + DigitVal(Head(t)))

\* The digit part int() accepts: digits, single underscores only between digits.
IsDigitGroup(t) ==
    /\ t # <<>>
    /\ IsDigit(t[1])
    /\ IsDigit(t[Len(t)])
    /\ \A i \in 1..Len(t) : IsDigit(t[i]) \/ t[i] = "_"
    /\ \A i \in 1..(Len(t) - 1) : t[i] = "_" => t[i + 1] # "_"

RECURSIVE IntLStrip(_)
IntLStrip(t) == IF t # <<>> /\ IsIntSpace(Head(t)) THEN IntLStrip(Tail(t)) ELSE t

RECURSIVE IntRStrip(_)
IntRStrip(t) ==
    IF t # <<>> /\ IsIntSpace(t[Len(t)]) THEN IntRStrip(SubSeq(t, 1, Len(t) - 1)) ELSE t

\* int(text): surrounding whitespace dropped, one optional sign, then the digits.
\* ok = FALSE stands for ValueError.
PyInt(t) ==
    LET s == IntRStrip(IntLStrip(t))
        signed == s # <<>> /\ s[1] \in {"+", "-"}
        body == IF signed THEN Tail(s) ELSE s
        mag == IF IsDigitGroup(body) THEN DigitsValue(body, 0) ELSE 0
    IN  [ok |-> IsDigitGroup(body),
         val |-> IF signed /\ s[1] = "-" THEN 0 - mag ELSE mag]


(* --------------------------- literals of app.py ----------------------- *)

\* 'Patient ID'
hdrPatientID == <<"P", "a", "t", "i", "e", "n", "t", " ", "I", "D">>
\* 'Visit Count'
hdrVisitCount == <<"V", "i", "s", "i", "t", " ", "C", "o", "u", "n", "t">>
\* 'visit days'
hdrVisitDays == <<"v", "i", "s", "i", "t", " ", "d", "a", "y", "s">>
\* 'Patient_ID', the key the front end reads
keyPatient_ID == <<"P", "a", "t", "i", "e", "n", "t", "_", "I", "D">>
\* 'confirm'
txtConfirm == <<"c", "o", "n", "f", "i", "r", "m">>
\* 'daily'
txtDaily == <<"d", "a", "i", "l", "y">>
\* 'No'
txtNo == <<"N", "o">>
\* '0'
txtZero == <<"0">>

\* No exception was raised by a remote call.
NoFault == "none"

msgNoData == "No data in sheet"
msgFailedToLoad == "Failed to load data"
msgMissingPatientID ==
    "Missing required column headers in sheet: 'Patient ID' is not in list"
msgMissingVisitCount ==
    "Missing required column headers in sheet: 'Visit Count' is not in list"

(* ------------------------ dictionaries and lists ---------------------- *)

Min(a, b) == IF a < b THEN a ELSE b

\* dict.get(key, default)
Get(d, key, default) == IF key \in DOMAIN d THEN d[key] ELSE default

\* d[key] = value
SetKey(d, key, value) ==
    [k \in (DOMAIN d) \cup {key} |-> IF k = key THEN value ELSE d[k]]

\* dict(zip(headers, row)): pairs up to the shorter length; a repeated key keeps
\* the value of its last position.
ZipDict(headers, row) ==
    LET n == Min(Len(headers), Len(row))
        last(k) == CHOOSE i \in 1..n :
                      /\ headers[i] = k
                      /\ \A j \in 1..n : headers[j] = k => j <= i
    IN  [k \in {headers[i] : i \in 1..n} |-> row[last(k)]]

\* list.index(name), 0-based; -1 stands for ValueError.
HeaderIndex(headers, name) ==
    IF \E i \in 1..Len(headers) : headers[i] = name
    THEN (CHOOSE i \in 1..Len(headers) :
             /\ headers[i] = name
             /\ \A j \in 1..(i - 1) : headers[j] # name) - 1
    ELSE -1

RECURSIVE MapRows(_, _)
\* [dict(zip(headers, row)) for row in rows]
MapRows(headers, rows) ==
    IF rows = <<>> THEN <<>>
    ELSE <<ZipDict(headers, Head(rows))>> \o MapRows(headers, Tail(rows))

(* ----------------------------- A1 notation ---------------------------- *)

\* A faulty variant of the loop: the index is taken as 1-based.
RECURSIVE ColumnLoopOneBased(_, _)
ColumnLoopOneBased(col_index, letter) ==
    IF col_index >= 0
    THEN ColumnLoopOneBased((col_index \div 26) - 1,
             <<ascii_uppercase[((col_index + 1) % 26) + 1]>> \o letter)
    ELSE letter

RECURSIVE ColumnLoop(_, _)
\* The while loop of column_to_letter.
ColumnLoop(col_index, letter) ==
    IF col_index >= 0
    THEN ColumnLoop((col_index \div 26) - 1,
             <<ascii_uppercase[(col_index % 26) + 1]>> \o letter)
    ELSE letter

\* A faulty variant of column_to_letter, one column to the right.
column_to_letter_shifted(col_index) == ColumnLoopOneBased(col_index, <<>>)

\* Convert 0-based column index to A1 letter notation.
column_to_letter(col_index) == ColumnLoop(col_index, <<>>)

\* f'{col_letter}{i}': the cell part of the range handed to update().
RangeToUpdate(col_letter, i) == col_letter \o IntToStr(i)

RECURSIVE LettersValue(_, _)
LettersValue(t, acc) ==
    IF t = <<>> THEN acc
    ELSE LettersValue(Tail(t),
             acc * 26 + (CHOOSE i \in 1..26 : ascii_uppercase[i] = Head(t)))

RECURSIVE LetterPrefixLen(_)
LetterPrefixLen(t) ==
    IF t # <<>> /\ IsUpper(Head(t)) THEN 1 + LetterPrefixLen(Tail(t)) ELSE 0

\* How the spreadsheet service reads an A1 cell reference: the letters are a
\* bijective base-26 column number, the digits the 1-based row number.
\* col is 0-based, row is 1-based.
A1Cell(range) ==
    LET n == LetterPrefixLen(range)
    IN  [col |-> LettersValue(SubSeq(range, 1, n), 0) - 1,
         row |-> DigitsValue(SubSeq(range, n + 1, Len(range)), 0)]

(* ------------------------ the remote spreadsheet ---------------------- *)

RECURSIVE Blanks(_)
Blanks(n) == IF n <= 0 THEN <<>> ELSE <<<<>>>> \o Blanks(n - 1)

\* The text of the cell at 1-based sheet row r and 0-based column c; a cell the
\* ragged row does not reach, or a row the sheet does not reach, is blank.
Cell(values, r, c) ==
    IF r \in 1..Len(values) /\ c + 1 \in 1..Len(values[r])
    THEN values[r][c + 1]
    ELSE <<>>

\* values().get(range=SHEET_NAME): the whole sheet, [] when it holds nothing.
SheetGet(s) == s

\* values().append(..., INSERT_ROWS): one new row after the last row.
SheetAppend(s, row) == Append(s, row)

\* values().update(range=<one cell>, body={'values': [[v]]}): writes that one
\* cell; a row or cell the sheet did not reach yet comes into being blank.
SheetUpdate(s, range, text) ==
    LET at == A1Cell(range)
        tall == s \o Blanks(at.row - Len(s))
        old == tall[at.row]
        wide == old \o Blanks(at.col + 1 - Len(old))
    IN  [tall EXCEPT ![at.row] = [wide EXCEPT ![at.col + 1] = text]]


(* ------------------------------ Row Mapper ---------------------------- *)

\* A faulty variant of BuildRow: an absent visit count is left blank.
BuildRowNoDefault(data) ==
    << Get(data, "Patient_ID", <<>>), Get(data, "Name", <<>>),
       Get(data, "number", <<>>), Get(data, "Age", <<>>),
       Get(data, "Gender", <<>>), Get(data, "Occupation", <<>>),
       Get(data, "Ref. by", <<>>), Get(data, "Address", <<>>),
       Get(data, "Date of joining", <<>>), Get(data, "conditions", <<>>),
       Get(data, "Time", <<>>), Join(Get(data, "visit days", <<>>), <<",">>),
       Get(data, "Visit Count", <<>>), txtNo >>

\* The fixed column order of add_patient; data is the request's JSON object.
BuildRow(data) ==
    << Get(data, "Patient_ID", <<>>), Get(data, "Name", <<>>),
       Get(data, "number", <<>>), Get(data, "Age", <<>>),
       Get(data, "Gender", <<>>), Get(data, "Occupation", <<>>),
       Get(data, "Ref. by", <<>>), Get(data, "Address", <<>>),
       Get(data, "Date of joining", <<>>), Get(data, "conditions", <<>>),
       Get(data, "Time", <<>>), Join(Get(data, "visit days", <<>>), <<",">>),
       Get(data, "Visit Count", txtZero), txtNo >>

\* get_patients on the values the read returned.
ListAll(values) ==
    IF values = <<>> THEN <<>> ELSE MapRows(values[1], Tail(values))

(* ------------------------------ Day Matcher --------------------------- *)

\* datetime.today().strftime('%A'), Monday first.
WeekdayNames ==
    << <<"M", "o", "n", "d", "a", "y">>,
       <<"T", "u", "e", "s", "d", "a", "y">>,
       <<"W", "e", "d", "n", "e", "s", "d", "a", "y">>,
       <<"T", "h", "u", "r", "s", "d", "a", "y">>,
       <<"F", "r", "i", "d", "a", "y">>,
       <<"S", "a", "t", "u", "r", "d", "a", "y">>,
       <<"S", "u", "n", "d", "a", "y">> >>

Weekdays == 1..7

\* today_day = strftime('%A').lower()
TodayDay(wd) == Lower(WeekdayNames[wd])

RECURSIVE StripLowerNonEmpty(_)
\* [d.strip().lower() for d in parts if d.strip()]
StripLowerNonEmpty(parts) ==
    IF parts = <<>> THEN <<>>
    ELSE (IF Strip(Head(parts)) # <<>>
          THEN <<Lower(Strip(Head(parts)))>> ELSE <<>>)
         \o StripLowerNonEmpty(Tail(parts))

VisitDayTokens(visit_days_str) == StripLowerNonEmpty(Split(visit_days_str, ","))

\* x in list
InList(x, list) == \E i \in 1..Len(list) : list[i] = x

\* The patient's record, visit_days_str = p.get('visit days', '') or ''.
VisitDaysOf(p) == Get(p, hdrVisitDays, <<>>)

\* today_day in visit_days or 'daily' in visit_days
DueToday(p, today_day) ==
    LET visit_days == VisitDayTokens(VisitDaysOf(p))
    IN  InList(today_day, visit_days) \/ InList(txtDaily, visit_days)

\* What list-today does to a record it keeps.
TodayRecord(p) ==
    LET q == IF hdrVisitCount \notin DOMAIN p \/ p[hdrVisitCount] = <<>>
             THEN SetKey(p, hdrVisitCount, txtZero) ELSE p
    IN  SetKey(q, keyPatient_ID, Get(p, hdrPatientID, <<>>))

RECURSIVE TodayFilter(_, _)
TodayFilter(patients, today_day) ==
    IF patients = <<>> THEN <<>>
    ELSE (IF DueToday(Head(patients), today_day)
          THEN <<TodayRecord(Head(patients))>> ELSE <<>>)
         \o TodayFilter(Tail(patients), today_day)

\* get_today_patients on the values the read returned.
ListToday(values, today_day) == TodayFilter(ListAll(values), today_day)

(* --------------------------- Attendance Updater ----------------------- *)

\* enumerate(data_rows, start=2): the sheet row of the first data row.
EnumerateStart == 2

\* A faulty variant of RowMatches: a row too short for the column matches.
RowMatchesPadded(row, patient_id_col_index, patient_id) ==
    Len(row) <= patient_id_col_index \/ row[patient_id_col_index + 1] = patient_id

\* current_patient_id == patient_id, None for a row too short to hold the column.
RowMatches(row, patient_id_col_index, patient_id) ==
    /\ Len(row) > patient_id_col_index
    /\ row[patient_id_col_index + 1] = patient_id

\* The positions j of data_rows (1-based) the loop would accept.
MatchingRows(data_rows, patient_id_col_index, patient_id) ==
    {j \in 1..Len(data_rows) :
        RowMatches(data_rows[j], patient_id_col_index, patient_id)}

\* A faulty variant of PickFirst: the loop runs on to the last match.
PickLast(js) == CHOOSE j \in js : \A k \in js : k <= j

\* The loop stops at the first match (break).
PickFirst(js) == CHOOSE j \in js : \A k \in js : j <= k

\* int(current_count_str or '0'), 0 on ValueError; '0' when the row is too short.
CurrentCount(row, visit_count_col_index) ==
    LET current_count_str == IF Len(row) > visit_count_col_index
                             THEN row[visit_count_col_index + 1] ELSE txtZero
        parsed == PyInt(IF current_count_str = <<>> THEN txtZero
                        ELSE current_count_str)
    IN  IF parsed.ok THEN parsed.val ELSE 0

\* A faulty variant of NewVisitCount.
NewVisitCountDecrement(current_count) == current_count - 1

\* new_visit_count = current_count + 1
NewVisitCount(current_count) == current_count + 1

\* Steps 2-4 of mark_attendance on the values the read returned (non-empty,
\* both headers present): found, and for the match the range and the value.
FindAndPlan(values, patient_id) ==
    LET headers == values[1]
        data_rows == Tail(values)
        patient_id_col_index == HeaderIndex(headers, hdrPatientID)
        visit_count_col_index == HeaderIndex(headers, hdrVisitCount)
        js == MatchingRows(data_rows, patient_id_col_index, patient_id)
        j == PickFirst(js)
        i == j - 1 + EnumerateStart
        current_count == CurrentCount(data_rows[j], visit_count_col_index)
    IN  IF js = {} THEN [found |-> FALSE]
        ELSE [found |-> TRUE,
              read |-> current_count,
              val |-> NewVisitCount(current_count),
              range |-> RangeToUpdate(column_to_letter(visit_count_col_index), i)]


(* ------------------------------ inputs -------------------------------- *)

idP1 == <<"p", "1">>
idP2 == <<"p", "2">>

\* The patient identifiers of the request paths.
Ids == {idP1, idP2}

\* A header row whose order is the fixed column order of add_patient.
StdHeader ==
    <<hdrPatientID,
       <<"N", "a", "m", "e">>,
       <<"n", "u", "m", "b", "e", "r">>,
       <<"A", "g", "e">>,
       <<"G", "e", "n", "d", "e", "r">>,
       <<"O", "c", "c", "u", "p", "a", "t", "i", "o", "n">>,
       <<"R", "e", "f", ".", " ", "b", "y">>,
       <<"A", "d", "d", "r", "e", "s", "s">>,
       <<"D", "a", "t", "e", " ", "o", "f", " ", "j", "o", "i", "n", "i", "n", "g">>,
       <<"c", "o", "n", "d", "i", "t", "i", "o", "n", "s">>,
       <<"T", "i", "m", "e">>,
       hdrVisitDays,
       hdrVisitCount,
       <<"A", "t", "t", "e", "n", "d", "e", "d">>>>

\* A header row with the identifier in column B and the visit count in column AA.
WideHeader ==
    <<<<"N", "a", "m", "e">>, hdrPatientID, hdrVisitDays>> \o Blanks(23) \o <<hdrVisitCount>>

\* The sheets a behaviour may start from; every visit count in them is blank
\* or a non-negative integer.
InitSheets ==
    { <<>>,
      <<StdHeader>>,
      <<StdHeader,
        <<<<"p", "1">>, <<"A", "l">>, <<"7">>, <<"3", "0">>, <<"F">>, <<"x">>, <<"x">>, <<"x">>, <<"x">>, <<"x">>, <<"x">>, <<"S", "a", "t", "u", "r", "d", "a", "y", ",", " ", "m", "o", "n">>, <<"3">>, <<"N", "o">>>>,
        <<>>,
        <<<<"p", "1">>, <<"A", "l">>, <<>>, <<>>, <<>>, <<>>, <<>>, <<>>, <<>>, <<>>, <<>>, <<"s", "a", "t">>, <<"7">>>>,
        <<idP2, <<"A", "l">>>>>>,
      <<<<hdrPatientID, <<"N", "a", "m", "e">>>>, <<idP1, <<"A", "l">>>>>>,
      <<WideHeader,
        <<idP1>>,
        <<<<"A", "l">>, idP1, <<"S", "a", "t", "u", "r", "d", "a", "y", "s">>>>,
        <<<<"A", "l">>, idP1, <<"D", "A", "I", "L", "Y">>>> \o Blanks(23) \o <<<<"9">>>>>> }

\* The JSON objects of the create requests.
CreateBodies ==
    { [Patient_ID |-> idP2, Name |-> <<"A", "l">>],
      ("Patient_ID" :> idP2)
          @@ ("visit days" :> <<<<"s", "u", "n">>,
                                <<chVT, "t", "u", "e", "s", "d", "a", "y", chUS>>>>)
          @@ ("Visit Count" :> <<"\f", "-", "2", chVT>>),
      ("Patient_ID" :> idP1) @@ ("Name" :> <<"A", "l">>) @@ ("number" :> <<"7">>)
          @@ ("Age" :> <<"3", "0">>) @@ ("Gender" :> <<"F">>) @@ ("Occupation" :> <<"x">>)
          @@ ("Ref. by" :> <<"x">>) @@ ("Address" :> <<"x">>)
          @@ ("Date of joining" :> <<"x">>) @@ ("conditions" :> <<"x">>)
          @@ ("Time" :> <<"x">>)
          @@ ("visit days" :> <<<<" ", "M", "o", "n", "d", "a", "y", " ">>, <<"S", "U", "N">>,
                                <<"\f", "F", "r", "i", "d", "a", "y">>>>)
          @@ ("Visit Count" :> <<"7", chFS>>) }

\* An object with no field.
NoFields == [k \in {} |-> <<>>]

\* The JSON objects of the attend requests.
AttendBodies ==
    { [action |-> txtConfirm], [action |-> <<"C", "o", "n", "f", "i", "r", "m">>],
      [action |-> <<"c", "a", "n", "c", "e", "l">>], NoFields }

\* The messages str(e) of the exceptions a remote call may raise; an exception
\* raised without arguments has the empty text.
ErrMsgs == {"quota exceeded", ""}

Faults == {NoFault} \cup ErrMsgs

\* The slots of the requests that may be under way together.
Slots == {1, 2}

(* ------------------------------- state -------------------------------- *)

\* sheet        the remote spreadsheet
\* reqs[s]      the request in slot s: where it stands; of an attend request
\*              its path identifier, what it read and plans to write, and its
\*              JSON object while the write is pending; the answer it holds
\*              between its last remote call and its return
\* resp         the last response sent, with the request it answers and the
\*              remote calls that request made
\* fault        the message of the exception the remote call of the last step
\*              raised
\* lastWritten  per identifier, the number the last 'updated' attend wrote
\* nattend      the attend requests with action confirm so far
\* ncreate      the rows the create requests appended so far

Response(op, code, status, key, message, body, id, data, day, calls) ==
    [op |-> op, code |-> code, status |-> status, key |-> key,
     message |-> message, body |-> body, id |-> id, data |-> data,
     day |-> day, calls |-> calls]

\* No response was sent yet.
NoResponse == Response("none", 0, "", "", "", <<>>, <<>>, NoFields, 0, <<>>)

IdleReq ==
    [pc |-> "idle", id |-> <<>>, data |-> NoFields, read |-> 0, val |-> 0,
     range |-> <<>>, writes |-> 0, status |-> "", held |-> NoResponse]

Init ==
    /\ sheet \in InitSheets
    /\ reqs = [s \in Slots |-> IdleReq]
    /\ resp = NoResponse
    /\ fault = NoFault
    /\ lastWritten = [id \in Ids |-> {}]
    /\ nattend = 0
    /\ ncreate = 0

\* No attend request is between its read and its write.
NoneInFlight == \A s \in Slots : reqs[s].pc # "write"

(* ------------------------------ handlers ------------------------------ *)

\* What get_patients answers after its remote read returned values, or raised
\* the exception f.
GetPatientsReply(values, f) ==
    IF f = NoFault
    THEN Response("list", 200, "", "", "", ListAll(values), <<>>, NoFields, 0,
                  <<"get">>)
    ELSE Response("list", 500, "error", "message", f, <<>>, <<>>, NoFields, 0,
                  <<"get">>)

\* GET /api/patients: one remote read; f is the exception it raises, if any.
GetPatients ==
    \E f \in Faults :
        /\ resp' = GetPatientsReply(SheetGet(sheet), f)
        /\ fault' = f
        /\ UNCHANGED <<sheet, reqs, lastWritten, nattend, ncreate>>

\* A variant of TodayErrorMessage that passes the exception's message on.
TodayErrorMessageEcho(e) == e

\* 'message': 'Failed to load data', whatever the exception e says.
TodayErrorMessage(e) == msgFailedToLoad

\* What get_today_patients answers on weekday wd after its remote read returned
\* values, or raised the exception f.
GetTodayPatientsReply(values, wd, f) ==
    IF f = NoFault
    THEN Response("today", 200, "", "", "", ListToday(values, TodayDay(wd)),
                  <<>>, NoFields, wd, <<"get">>)
    ELSE Response("today", 500, "error", "message", TodayErrorMessage(f),
                  <<>>, <<>>, NoFields, 0, <<"get">>)

\* GET /api/patients/today on weekday wd: one remote read, and the weekday is
\* taken only after the read succeeded.
GetTodayPatients ==
    \E wd \in Weekdays, f \in Faults :
        /\ f # NoFault => wd = 1
        /\ resp' = GetTodayPatientsReply(SheetGet(sheet), wd, f)
        /\ fault' = f
        /\ UNCHANGED <<sheet, reqs, lastWritten, nattend, ncreate>>

\* What add_patient answers after its remote append succeeded, or raised the
\* exception f.
AddPatientReply(data, f) ==
    IF f = NoFault
    THEN Response("create", 200, "success", "", "", <<>>, <<>>, data, 0,
                  <<"append">>)
    ELSE Response("create", 500, "error", "error", f, <<>>, <<>>, data, 0,
                  <<"append">>)

\* POST /api/patients with JSON object data: one remote append.
AddPatient ==
    \E data \in CreateBodies, f \in Faults :
        /\ ncreate < MaxCreates
        /\ ncreate' = IF f = NoFault THEN ncreate + 1 ELSE ncreate
        /\ sheet' = IF f = NoFault THEN SheetAppend(sheet, BuildRow(data))
                    ELSE sheet
        /\ resp' = AddPatientReply(data, f)
        /\ fault' = f
        /\ UNCHANGED <<reqs, lastWritten, nattend>>

\* action = data.get('action', '').lower()
ActionOf(data) == Lower(Get(data, "action", <<>>))

\* What mark_attendance answers; key is "message" when the JSON object carries
\* a 'message', whatever its text.
MarkAttendanceReply(patient_id, data, code, status, key, message, calls) ==
    Response("attend", code, status, key, message, <<>>, patient_id, data, 0,
             calls)

\* The request in slot s ends with this response and without a write pending.
Finish(s, patient_id, data, code, status, key, message, calls) ==
    /\ reqs' = [reqs EXCEPT ![s] =
                   [IdleReq EXCEPT !.pc = "done", !.id = patient_id]]
    /\ resp' = MarkAttendanceReply(patient_id, data, code, status, key,
                                   message, calls)

\* The response of mark_attendance when the read returned values and nothing
\* is to be written: the code, the status, and the key and text of the message
\* if the JSON object carries one.
NoWriteOutcome(values, patient_id) ==
    IF values = <<>> THEN <<404, "not found", "message", msgNoData>>
    ELSE IF HeaderIndex(values[1], hdrPatientID) < 0
         THEN <<500, "error", "message", msgMissingPatientID>>
    ELSE IF HeaderIndex(values[1], hdrVisitCount) < 0
         THEN <<500, "error", "message", msgMissingVisitCount>>
    ELSE <<200, "not found", "", "">>

\* The read returned values in which a row is to be updated.
HasPlan(values, patient_id) ==
    /\ values # <<>>
    /\ HeaderIndex(values[1], hdrPatientID) >= 0
    /\ HeaderIndex(values[1], hdrVisitCount) >= 0
    /\ FindAndPlan(values, patient_id).found

\* The request in slot s after its read found the row to update: it holds the
\* count it read, the number and the range it will write.
Planned(patient_id, data, plan) ==
    [IdleReq EXCEPT !.pc = "write", !.id = patient_id, !.data = data,
                    !.read = plan.read, !.val = plan.val,
                    !.range = plan.range]

\* PUT /api/patients/<patient_id>/attend, from the request up to the remote
\* read and, when no row is to be updated, up to the response.
AttendBegin(s) ==
    \E patient_id \in Ids, data \in AttendBodies, f \in Faults :
        /\ reqs[s].pc # "write"
        /\ UNCHANGED <<sheet, lastWritten, ncreate>>
        /\ IF ActionOf(data) # txtConfirm
           THEN /\ f = NoFault
                /\ Finish(s, patient_id, data, 200, "ignored", "", "", <<>>)
                /\ fault' = NoFault
                /\ nattend' = nattend
           ELSE /\ nattend < MaxAttends
                /\ nattend' = nattend + 1
                /\ fault' = f
                /\ IF f # NoFault
                   THEN Finish(s, patient_id, data, 500, "error", "message", f,
                               <<"get">>)
                   ELSE LET values == SheetGet(sheet)
                        IN  IF HasPlan(values, patient_id)
                            THEN /\ reqs' = [reqs EXCEPT ![s] =
                                        Planned(patient_id, data,
                                                FindAndPlan(values, patient_id))]
                                 /\ resp' = resp
                            ELSE LET out == NoWriteOutcome(values, patient_id)
                                 IN  Finish(s, patient_id, data,
                                            out[1], out[2], out[3], out[4],
                                            <<"get">>)

\* A variant of WrittenValue that reads the cell again right before the write.
WrittenValueReread(s, r) ==
    NewVisitCount(CurrentCount(
        IF A1Cell(r.range).row \in 1..Len(s) THEN s[A1Cell(r.range).row] ELSE <<>>,
        A1Cell(r.range).col))

\* body={'values': [[new_visit_count]]}: the number computed from the read,
\* whatever the sheet s holds by now.
WrittenValue(s, r) == r.val

\* The request r after its single-cell update succeeded.
Updated(r) ==
    [r EXCEPT !.pc = "done", !.data = NoFields, !.range = <<>>,
              !.writes = r.writes + 1, !.status = "updated"]

\* The rest of mark_attendance for slot s: the single-cell update and the
\* response.
AttendWrite(s) ==
    \E f \in Faults :
        /\ reqs[s].pc = "write"
        /\ fault' = f
        /\ nattend' = nattend
        /\ ncreate' = ncreate
        /\ IF f = NoFault
           THEN LET v == WrittenValue(sheet, reqs[s])
                IN  /\ sheet' = SheetUpdate(sheet, reqs[s].range, IntToStr(v))
                    /\ reqs' = [reqs EXCEPT ![s] = Updated(reqs[s])]
                    /\ resp' = MarkAttendanceReply(reqs[s].id, reqs[s].data,
                                   200, "updated", "", "", <<"get", "update">>)
                    /\ lastWritten' = [lastWritten EXCEPT ![reqs[s].id] = {v}]
           ELSE /\ sheet' = sheet
                /\ reqs' = [reqs EXCEPT ![s] =
                               [IdleReq EXCEPT !.pc = "done", !.id = reqs[s].id]]
                /\ resp' = MarkAttendanceReply(reqs[s].id, reqs[s].data,
                                   500, "error", "message", f,
                                   <<"get", "update">>)
                /\ lastWritten' = lastWritten

(* ---------------- the handlers, one remote call at a time -------------- *)

\* Flask serves each request on its own thread and nothing locks the sheet: a
\* handler waits for each remote call (.execute()) and answers afterwards, and
\* other requests run in between.  A slot holds a request from its first
\* remote call to its answer.

\* The inputs of the overlapping requests: one create object, the action
\* confirm or none, and one weekday.
OverlapCreateBodies == {[Patient_ID |-> idP2, Name |-> <<"A", "l">>]}

OverlapAttendBodies == {[action |-> txtConfirm], NoFields}

OverlapWeekdays == {6}

\* Slot s is the first slot that holds no request.
Free(s) ==
    /\ reqs[s].pc \in {"idle", "done"}
    /\ \A t \in Slots : t < s => reqs[t].pc \notin {"idle", "done"}

\* The request in slot s made its last remote call and holds its answer r.
Holding(q, r) == [q EXCEPT !.pc = "reply", !.held = r]

\* get_patients up to the return of its remote read.
GetPatientsRead(s) ==
    \E f \in Faults :
        /\ Free(s)
        /\ reqs' = [reqs EXCEPT ![s] =
                       Holding(IdleReq, GetPatientsReply(SheetGet(sheet), f))]
        /\ fault' = f
        /\ UNCHANGED <<sheet, resp, lastWritten, nattend, ncreate>>

\* get_today_patients up to the return of its remote read and the filtering.
GetTodayPatientsRead(s) ==
    \E wd \in OverlapWeekdays, f \in Faults :
        /\ Free(s)
        /\ f # NoFault => wd = 6
        /\ reqs' = [reqs EXCEPT ![s] =
                       Holding(IdleReq,
                               GetTodayPatientsReply(SheetGet(sheet), wd, f))]
        /\ fault' = f
        /\ UNCHANGED <<sheet, resp, lastWritten, nattend, ncreate>>

\* add_patient up to the return of its remote append.
AddPatientAppend(s) ==
    \E data \in OverlapCreateBodies, f \in Faults :
        /\ Free(s)
        /\ ncreate < MaxCreates
        /\ ncreate' = IF f = NoFault THEN ncreate + 1 ELSE ncreate
        /\ sheet' = IF f = NoFault THEN SheetAppend(sheet, BuildRow(data))
                    ELSE sheet
        /\ reqs' = [reqs EXCEPT ![s] =
                       Holding(IdleReq, AddPatientReply(data, f))]
        /\ fault' = f
        /\ UNCHANGED <<resp, lastWritten, nattend>>

\* mark_attendance up to the return of its remote read; a request whose action
\* is not confirm makes no remote call and is answered at once.
AttendRead(s) ==
    \E patient_id \in Ids, data \in OverlapAttendBodies, f \in Faults :
        /\ Free(s)
        /\ UNCHANGED <<sheet, lastWritten, ncreate>>
        /\ IF ActionOf(data) # txtConfirm
           THEN /\ f = NoFault
                /\ reqs' = [reqs EXCEPT ![s] = IdleReq]
                /\ resp' = MarkAttendanceReply(patient_id, data, 200, "ignored",
                                               "", "", <<>>)
                /\ fault' = NoFault
                /\ nattend' = nattend
           ELSE /\ nattend < MaxAttends
                /\ nattend' = nattend + 1
                /\ fault' = f
                /\ resp' = resp
                /\ IF f # NoFault
                   THEN reqs' = [reqs EXCEPT ![s] =
                            Holding(IdleReq,
                                MarkAttendanceReply(patient_id, data, 500,
                                    "error", "message", f, <<"get">>))]
                   ELSE LET values == SheetGet(sheet)
                        IN  IF HasPlan(values, patient_id)
                            THEN reqs' = [reqs EXCEPT ![s] =
                                     Planned(patient_id, data,
                                             FindAndPlan(values, patient_id))]
                            ELSE LET out == NoWriteOutcome(values, patient_id)
                                 IN  reqs' = [reqs EXCEPT ![s] =
                                         Holding(IdleReq,
                                             MarkAttendanceReply(patient_id,
                                                 data, out[1], out[2], out[3],
                                                 out[4], <<"get">>))]

\* mark_attendance from the return of its read to the return of its
\* single-cell update.
AttendUpdate(s) ==
    \E f \in Faults :
        /\ reqs[s].pc = "write"
        /\ fault' = f
        /\ UNCHANGED <<resp, nattend, ncreate>>
        /\ IF f = NoFault
           THEN LET v == WrittenValue(sheet, reqs[s])
                IN  /\ sheet' = SheetUpdate(sheet, reqs[s].range, IntToStr(v))
                    /\ reqs' = [reqs EXCEPT ![s] =
                           Holding(Updated(reqs[s]),
                               MarkAttendanceReply(reqs[s].id, reqs[s].data,
                                   200, "updated", "", "",
                                   <<"get", "update">>))]
                    /\ lastWritten' = [lastWritten EXCEPT ![reqs[s].id] = {v}]
           ELSE /\ sheet' = sheet
                /\ reqs' = [reqs EXCEPT ![s] =
                       Holding(IdleReq,
                           MarkAttendanceReply(reqs[s].id, reqs[s].data, 500,
                               "error", "message", f, <<"get", "update">>))]
                /\ lastWritten' = lastWritten

\* The request in slot s answers (return jsonify(...)) and leaves the slot; of
\* an attend request that wrote, the slot keeps what it read and wrote.
Answer(s) ==
    /\ reqs[s].pc = "reply"
    /\ resp' = reqs[s].held
    /\ reqs' = [reqs EXCEPT ![s] =
                   IF reqs[s].status = "updated"
                   THEN [reqs[s] EXCEPT !.pc = "done", !.held = NoResponse]
                   ELSE IdleReq]
    /\ fault' = NoFault
    /\ UNCHANGED <<sheet, lastWritten, nattend, ncreate>>

(* --------------------------- specifications --------------------------- *)

\* Requests run one after the other: none starts while an attend request is
\* between its read and its write.
Next ==
    \/ NoneInFlight /\ GetPatients
    \/ NoneInFlight /\ GetTodayPatients
    \/ NoneInFlight /\ AddPatient
    \/ NoneInFlight /\ AttendBegin(1)
    \/ AttendWrite(1)

Spec == Init /\ [][Next]_vars

\* Requests overlap: the requests in the slots interleave at their remote calls
\* and at their answers.
NextConc ==
    \/ \E s \in Slots : GetPatientsRead(s)
    \/ \E s \in Slots : GetTodayPatientsRead(s)
    \/ \E s \in Slots : AddPatientAppend(s)
    \/ \E s \in Slots : AttendRead(s)
    \/ \E s \in Slots : AttendUpdate(s)
    \/ \E s \in Slots : Answer(s)

SpecConc == Init /\ [][NextConc]_vars


(* ------------------------- notions of the claims ---------------------- *)

\* The widest row a sheet of the model holds: the 27 columns A..AA.
AllCols == 0..26

\* The header of sheet s names both columns the attend request looks up.
HasBothHeaders(s) ==
    /\ s # <<>>
    /\ \E i \in 1..Len(s[1]) : s[1][i] = hdrPatientID
    /\ \E i \in 1..Len(s[1]) : s[1][i] = hdrVisitCount

\* 0-based column of the first header cell equal to name.
ColOf(s, name) ==
    CHOOSE c \in AllCols : /\ c < Len(s[1])
                           /\ s[1][c + 1] = name
                           /\ \A d \in 0..(c - 1) : s[1][d + 1] # name

\* The sheet rows (2 and up) whose identifier cell exists and equals id.
RowsOf(s, id) ==
    {r \in 2..Len(s) : /\ Len(s[r]) > ColOf(s, hdrPatientID)
                       /\ s[r][ColOf(s, hdrPatientID) + 1] = id}

FirstRowOf(s, id) == CHOOSE r \in RowsOf(s, id) : \A q \in RowsOf(s, id) : r <= q

\* A cell's text read as a count: blank, missing or non-numeric is 0.
CountOf(text) == IF PyInt(text).ok THEN PyInt(text).val ELSE 0

\* The cells in which sheets s and u differ.
Changed(s, u) ==
    {rc \in (1..(Len(s) + Len(u))) \X AllCols :
        Cell(s, rc[1], rc[2]) # Cell(u, rc[1], rc[2])}

\* This step is the single-cell write of the attend request of worker 1.
WriteStep == reqs[1].pc = "write" /\ reqs'[1].pc = "done"

\* The text a is "confirm" up to the case of its letters.
IsConfirmAnyCase(a) ==
    /\ Len(a) = 7
    /\ a[1] \in {"c", "C"} /\ a[2] \in {"o", "O"} /\ a[3] \in {"n", "N"}
    /\ a[4] \in {"f", "F"} /\ a[5] \in {"i", "I"} /\ a[6] \in {"r", "R"}
    /\ a[7] \in {"m", "M"}

\* The action of the request a response answers; "" when the object has none.
ActionSent(r) == IF "action" \in DOMAIN r.data THEN r.data["action"] ELSE <<>>

\* This step ends an attend request.
AttendEnds == resp'.op = "attend" /\ resp' # resp

\* This step starts an attend request with action confirm (any letter case).
ConfirmStep == nattend' = nattend + 1

(* ------------------------------- claims ------------------------------- *)

\* C1: on a sheet whose header names 'Patient ID' and 'Visit Count' and that
\* holds a data row with the requested identifier, an attend request with
\* action confirm that runs alone and whose remote calls succeed goes on to its
\* write, answers 200 'updated', and leaves the first such row's visit-count
\* cell equal to the old count (blank, missing, non-numeric: 0) plus one, in
\* decimal, with every other cell of the sheet unchanged.
C1_ConfirmIncrementsFirstMatch ==
    [][ /\ (ConfirmStep /\ fault' = NoFault /\ HasBothHeaders(sheet)
              /\ reqs'[1].pc = "done")
           => RowsOf(sheet, resp'.id) = {}
        /\ (WriteStep /\ fault' = NoFault)
           => LET r == FirstRowOf(sheet, reqs[1].id)
                  c == ColOf(sheet, hdrVisitCount)
              IN  /\ resp'.status = "updated"
                  /\ resp'.code = 200
                  /\ Cell(sheet', r, c) = IntToStr(CountOf(Cell(sheet, r, c)) + 1)
                  /\ Changed(sheet, sheet') \subseteq {<<r, c>>}
                  /\ Len(sheet') = Len(sheet) ]_vars

\* C1 witness: a confirm answered 'updated' on a row whose visit-count cell was
\* missing, so that the cell now reads "1" in a row grown to reach it.
C1_Witness ==
    /\ resp.op = "attend"
    /\ resp.status = "updated"
    /\ reqs[1].read = 0
    /\ HasBothHeaders(sheet)
    /\ ColOf(sheet, hdrVisitCount) = 26
    /\ Cell(sheet, FirstRowOf(sheet, resp.id), 26) = <<"1">>

\* C2: when two attend confirmations for the same identifier overlap and both
\* read the same prior count n, both answer 'updated' and the persisted count
\* is n + 1: one increment is lost.
C2_LostUpdate ==
    (/\ reqs[1].pc = "done" /\ reqs[2].pc = "done"
     /\ reqs[1].status = "updated" /\ reqs[2].status = "updated"
     /\ reqs[1].id = reqs[2].id
     /\ reqs[1].read = reqs[2].read)
    => /\ reqs[1].val = reqs[1].read + 1
       /\ reqs[2].val = reqs[1].read + 1
       /\ Cell(sheet, FirstRowOf(sheet, reqs[1].id), ColOf(sheet, hdrVisitCount))
            = IntToStr(reqs[1].read + 1)

\* C2 witness: both workers answered 'updated' for the same identifier after
\* reading the same count 3, and the cell reads 4.
C2_Witness ==
    /\ reqs[1].pc = "done" /\ reqs[2].pc = "done"
    /\ reqs[1].status = "updated" /\ reqs[2].status = "updated"
    /\ reqs[1].id = idP1 /\ reqs[2].id = idP1
    /\ reqs[1].read = 3 /\ reqs[2].read = 3
    /\ Cell(sheet, FirstRowOf(sheet, idP1), ColOf(sheet, hdrVisitCount)) = <<"4">>

\* C3 (as amended): an attend confirmation for an identifier that equals no
\* data row's identifier cell, its read succeeding, writes nothing and ends at
\* once; it answers 200 'not found' when the header names both columns,
\* 404 'not found' when the sheet has no rows at all, and 500 'error' when the
\* header lacks one of the two column names.
C3_AbsentIdentifier ==
    [][ (/\ ConfirmStep /\ fault' = NoFault
         /\ (HasBothHeaders(sheet) => RowsOf(sheet, reqs'[1].id) = {}))
        => /\ reqs'[1].pc = "done"
           /\ sheet' = sheet
           /\ resp'.calls = <<"get">>
           /\ (HasBothHeaders(sheet)
                 => resp'.code = 200 /\ resp'.status = "not found")
           /\ (sheet = <<>>
                 => resp'.code = 404 /\ resp'.status = "not found")
           /\ (sheet # <<>> /\ ~HasBothHeaders(sheet)
                 => resp'.code = 500 /\ resp'.status = "error") ]_vars

\* C3 witness: 'not found' was answered with 200 on a sheet that holds data
\* rows, none with the requested identifier.
C3_Witness ==
    /\ resp.op = "attend" /\ resp.status = "not found" /\ resp.code = 200
    /\ HasBothHeaders(sheet) /\ Len(sheet) > 1
    /\ RowsOf(sheet, resp.id) = {}

\* C3 as stated: whatever the sheet, a confirmation for an absent identifier
\* writes nothing and answers 'not found' with HTTP 200.
C3_Original ==
    [][ (/\ ConfirmStep /\ fault' = NoFault
         /\ (HasBothHeaders(sheet) => RowsOf(sheet, reqs'[1].id) = {}))
        => /\ reqs'[1].pc = "done"
           /\ sheet' = sheet
           /\ resp'.status = "not found"
           /\ resp'.code = 200 ]_vars


\* C4 (as amended): the action is compared with "confirm" without regard to
\* letter case.  A request whose action is absent or, lower-cased, differs from
\* "confirm" makes no remote call, leaves the sheet unchanged and answers
\* 200 'ignored'; a request whose action is "confirm" in any letter case
\* ("Confirm", "CONFIRM") is not ignored and reads the sheet.
C4_OnlyConfirmAnyCaseWorks ==
    [][ AttendEnds
        => IF IsConfirmAnyCase(ActionSent(resp'))
           THEN resp'.status # "ignored" /\ resp'.calls # <<>>
           ELSE /\ resp'.status = "ignored"
                /\ resp'.code = 200
                /\ resp'.calls = <<>>
                /\ fault' = NoFault
                /\ sheet' = sheet ]_vars

\* C4 witness: a request with action "Confirm", capital C, was answered
\* 'updated'.
C4_Witness ==
    /\ resp.op = "attend"
    /\ ActionSent(resp) = <<"C", "o", "n", "f", "i", "r", "m">>
    /\ resp.status = "updated"

\* C4 as stated: every action other than the literal "confirm" is answered
\* 'ignored' without a remote call.
C4_Original ==
    (resp.op = "attend" /\ ActionSent(resp) # txtConfirm)
    => resp.status = "ignored" /\ resp.calls = <<>>

\* The record list-all returns for sheet row r.
RecordOf(s, r) == ListAll(s)[r - 1]

\* The sheet rows whose list-all record carries identifier id.
RecordsOf(s, id) ==
    {r \in 2..Len(s) : /\ hdrPatientID \in DOMAIN RecordOf(s, r)
                       /\ RecordOf(s, r)[hdrPatientID] = id}

\* The visit-count field of the record of row r, parsed, equals n.
RecordCountIs(s, r, n) ==
    /\ hdrVisitCount \in DOMAIN RecordOf(s, r)
    /\ PyInt(RecordOf(s, r)[hdrVisitCount]).ok
    /\ PyInt(RecordOf(s, r)[hdrVisitCount]).val = n

\* C5 (as amended): after any sequence of non-overlapping requests, for every
\* identifier with an attend confirmation answered 'updated', the FIRST record
\* list-all returns for that identifier has a visit-count field that, parsed as
\* an integer, equals the integer the most recent such confirmation wrote.
C5_FirstRecordRoundTrip ==
    \A id \in Ids :
        lastWritten[id] # {}
        => /\ RecordsOf(sheet, id) # {}
           /\ \E r \in RecordsOf(sheet, id) :
                 /\ \A q \in RecordsOf(sheet, id) : r <= q
                 /\ \E n \in lastWritten[id] : RecordCountIs(sheet, r, n)

\* C5 witness: list-all answered after two confirmations for p1, and the first
\* record for p1 in the response carries the count last written.
C5_Witness ==
    /\ resp.op = "list" /\ resp.code = 200
    /\ lastWritten[idP1] = {5}
    /\ \E k \in 1..Len(resp.body) :
          /\ hdrPatientID \in DOMAIN resp.body[k]
          /\ resp.body[k][hdrPatientID] = idP1
          /\ resp.body[k][hdrVisitCount] = <<"5">>
          /\ \A j \in 1..(k - 1) :
                Get(resp.body[j], hdrPatientID, <<>>) # idP1

\* C5 as stated: every record list-all returns for that identifier carries the
\* count last written.
C5_Original ==
    \A id \in Ids :
        lastWritten[id] # {}
        => \A r \in RecordsOf(sheet, id) :
              \E n \in lastWritten[id] : RecordCountIs(sheet, r, n)


\* The JSON field behind each of the first thirteen columns of a created row.
FieldOrder ==
    <<"Patient_ID", "Name", "number", "Age", "Gender", "Occupation", "Ref. by",
      "Address", "Date of joining", "conditions", "Time", "visit days",
      "Visit Count">>

\* The cell a supplied field value becomes: the visit days are joined by commas.
SuppliedCell(field, value) ==
    IF field = "visit days" THEN Join(value, <<",">>) ELSE value

\* This step is a create request answered 'success'.
CreateStep == resp'.op = "create" /\ resp'.status = "success" /\ sheet' # sheet

\* C6 (as amended): a successful create appends exactly one row at the end of
\* the sheet and changes no existing row; the row has fourteen cells in the
\* fixed column order; a field the body supplied is in its column, a field it
\* did not supply is the empty string, except the visit count, which is then
\* "0"; the fourteenth cell, the attendance flag, is always "No".
C6_CreateAppendsRow ==
    [][ CreateStep
        => LET row == sheet'[Len(sheet')]
               data == resp'.data
           IN  /\ Len(sheet') = Len(sheet) + 1
               /\ SubSeq(sheet', 1, Len(sheet)) = sheet
               /\ Len(row) = 14
               /\ \A k \in 1..13 :
                     row[k] = IF FieldOrder[k] \in DOMAIN data
                              THEN SuppliedCell(FieldOrder[k], data[FieldOrder[k]])
                              ELSE IF FieldOrder[k] = "Visit Count"
                                   THEN <<"0">> ELSE <<>>
               /\ row[14] = <<"N", "o">> ]_vars

\* C6 witness: the minimal object (identifier and name only) was created under
\* the standard header, and the last row reads p2, Al, nine blanks, "0", "No".
C6_Witness ==
    /\ resp.op = "create" /\ resp.status = "success"
    /\ DOMAIN resp.data = {"Patient_ID", "Name"}
    /\ Len(sheet) = 2
    /\ sheet[1] = StdHeader
    /\ sheet[2][1] = idP2
    /\ sheet[2][12] = <<>>
    /\ sheet[2][13] = <<"0">>

\* C6 as stated: every field the body did not supply is the empty string in
\* the appended row.
C6_Original ==
    [][ CreateStep
        => LET row == sheet'[Len(sheet')]
               data == resp'.data
           IN  /\ Len(sheet') = Len(sheet) + 1
               /\ SubSeq(sheet', 1, Len(sheet)) = sheet
               /\ \A k \in 1..13 :
                     row[k] = IF FieldOrder[k] \in DOMAIN data
                              THEN SuppliedCell(FieldOrder[k], data[FieldOrder[k]])
                              ELSE <<>> ]_vars

\* c is the letter l or its capital.
SameLetter(c, l) ==
    c = l \/ \E i \in 1..26 : ascii_uppercase[i] = c /\ ascii_lowercase[i] = l

\* Positions a..b of text hold, between blanks only, the word in any letter case.
HoldsWord(text, a, b, word) ==
    \E c \in a..(b + 1) :
        /\ c + Len(word) - 1 <= b
        /\ \A k \in a..(c - 1) : IsSpace(text[k])
        /\ \A k \in 1..Len(word) : SameLetter(text[c + k - 1], word[k])
        /\ \A k \in (c + Len(word))..b : IsSpace(text[k])

\* Positions a..b of text are one comma-separated part of it.
IsPart(text, a, b) ==
    /\ a = 1 \/ text[a - 1] = ","
    /\ b = Len(text) \/ text[b + 1] = ","
    /\ \A k \in a..b : text[k] # ","

\* Some comma-separated part of text is the word, up to blanks around it and
\* letter case.
HasToken(text, word) ==
    \E a \in 1..(Len(text) + 1), b \in 0..Len(text) :
        /\ a <= b
        /\ IsPart(text, a, b)
        /\ HoldsWord(text, a, b, word)

\* Some comma-separated part of text starts, after blanks, with the letters of
\* word, in any letter case.
HasTokenStarting(text, word) ==
    \E a \in 1..(Len(text) + 1), b \in 0..Len(text) :
        /\ a <= b
        /\ IsPart(text, a, b)
        /\ \E c \in a..b :
              /\ c + Len(word) - 1 <= b
              /\ \A k \in a..(c - 1) : IsSpace(text[k])
              /\ \A k \in 1..Len(word) : SameLetter(text[c + k - 1], word[k])

\* The visit-days text of sheet row r, as the record of the row holds it.
VisitDaysText(s, r) == Get(RecordOf(s, r), hdrVisitDays, <<>>)

\* The lower-case full name of weekday wd, letter by letter.
DayWord(wd) ==
    <<<<"m", "o", "n", "d", "a", "y">>, <<"t", "u", "e", "s", "d", "a", "y">>,
      <<"w", "e", "d", "n", "e", "s", "d", "a", "y">>,
      <<"t", "h", "u", "r", "s", "d", "a", "y">>, <<"f", "r", "i", "d", "a", "y">>,
      <<"s", "a", "t", "u", "r", "d", "a", "y">>, <<"s", "u", "n", "d", "a", "y">>>>[wd]

\* The rule of the code: 'daily' or today's full weekday name is a token.
FullNameRule(text, wd) == HasToken(text, txtDaily) \/ HasToken(text, DayWord(wd))

\* The rule of the claim: also the three-letter abbreviation, as a token or as
\* the first three characters of a token.
PrefixRule(text, wd) ==
    \/ FullNameRule(text, wd)
    \/ HasToken(text, SubSeq(DayWord(wd), 1, 3))
    \/ HasTokenStarting(text, SubSeq(DayWord(wd), 1, 3))

\* The response lists exactly the rows the rule accepts, one record each.
TodayListsBy(Rule(_, _)) ==
    LET due == {r \in 2..Len(sheet) : Rule(VisitDaysText(sheet, r), resp.day)}
    IN  /\ Len(resp.body) = Cardinality(due)
        /\ \A r \in 2..Len(sheet) :
              (r \in due) <=>
                 \E k \in 1..Len(resp.body) :
                    /\ \A key \in DOMAIN RecordOf(sheet, r) \ {hdrVisitCount} :
                          /\ key \in DOMAIN resp.body[k]
                          /\ resp.body[k][key] = RecordOf(sheet, r)[key]
                    /\ resp.body[k][keyPatient_ID]
                          = Get(RecordOf(sheet, r), hdrPatientID, <<>>)

\* C7 (as amended): for every weekday and every stored visit-days text,
\* list-today includes a patient exactly when, after splitting the text at
\* commas into trimmed, lower-cased tokens, the token 'daily' or today's full
\* weekday name is present; the three-letter abbreviation ('sat') and longer
\* tokens that start with it ('Saturdays') do not match.
C7_TodayByFullName ==
    (resp.op = "today" /\ resp.code = 200) => TodayListsBy(FullNameRule)

\* C7 witness: on a Saturday list-today answered with the one patient whose
\* visit days read "Saturday, mon", and left out the patient whose read "sat".
C7_Witness ==
    /\ resp.op = "today" /\ resp.code = 200 /\ resp.day = 6
    /\ Len(sheet) = 5
    /\ VisitDaysText(sheet, 4) = <<"s", "a", "t">>
    /\ Len(resp.body) = 1
    /\ resp.body[1][keyPatient_ID] = idP1

\* C7 as stated: the abbreviation and the three-character prefix match too.
C7_Original ==
    (resp.op = "today" /\ resp.code = 200) => TodayListsBy(PrefixRule)


\* C8 (as amended): in every API handler a failure of a remote spreadsheet
\* call (read, append or update) is answered with HTTP 500 and status 'error',
\* and the request leaves the sheet unchanged.  The response carries the
\* exception's message in list-all, create (under the key 'error') and attend;
\* list-today answers the fixed message 'Failed to load data' instead.
C8_RemoteFailureIs500 ==
    [][ fault' # NoFault
        => /\ sheet' = sheet
           /\ resp'.code = 500
           /\ resp'.status = "error"
           /\ resp'.op \in {"list", "today", "create", "attend"}
           /\ resp'.message = IF resp'.op = "today" THEN "Failed to load data"
                              ELSE fault'
           /\ resp'.key = IF resp'.op = "create" THEN "error" ELSE "message" ]_vars

\* C8 witness: the read of an attend confirmation raised an exception whose
\* text is empty; the response is the 500 with status 'error' and the key
\* 'message' holding the empty text, and nothing was written.
C8_Witness ==
    /\ fault = ""
    /\ resp.op = "attend" /\ resp.code = 500 /\ resp.status = "error"
    /\ resp.calls = <<"get">>
    /\ resp.key = "message" /\ resp.message = ""
    /\ lastWritten[resp.id] = {}

\* C8 as stated: every handler's 500 carries the exception's message.
C8_Original ==
    [][ fault' # NoFault
        => /\ sheet' = sheet
           /\ resp'.code = 500
           /\ resp'.message = fault' ]_vars

\* C9: an attend request performs at most one single-cell write, in its last
\* step and in the visit-count column of the first data row, in sheet order,
\* whose identifier cell equals the requested identifier; later rows with the
\* same identifier keep their visit count, and a data row too short to hold
\* the identifier column is never the row written.
C9_OnlyFirstMatchWritten ==
    [][ /\ (reqs' # reqs /\ ~WriteStep) => sheet' = sheet
        /\ reqs'[1].writes <= 1
        /\ (resp'.op = "attend"
              => Len(SelectSeq(resp'.calls, LAMBDA c : c = "update")) <= 1)
        /\ WriteStep
           => /\ Cardinality(Changed(sheet, sheet')) <= 1
              /\ Len(sheet') = Len(sheet)
              /\ \A rc \in Changed(sheet, sheet') :
                    /\ rc[2] = ColOf(sheet, hdrVisitCount)
                    /\ Len(sheet[rc[1]]) > ColOf(sheet, hdrPatientID)
                    /\ Cell(sheet, rc[1], ColOf(sheet, hdrPatientID)) = reqs[1].id
                    /\ \A q \in 2..(rc[1] - 1) :
                          \/ Len(sheet[q]) <= ColOf(sheet, hdrPatientID)
                          \/ Cell(sheet, q, ColOf(sheet, hdrPatientID)) # reqs[1].id
       ]_vars

\* C9 witness: two rows carry p1 behind a row too short to hold the identifier
\* column; a confirmation for p1 was answered 'updated', the first of the two
\* reads "1" and the later one still reads "9".
C9_Witness ==
    /\ resp.op = "attend" /\ resp.status = "updated" /\ resp.id = idP1
    /\ Len(sheet) = 4
    /\ sheet[1] = WideHeader
    /\ Len(sheet[2]) = 1
    /\ RowsOf(sheet, idP1) = {3, 4}
    /\ Cell(sheet, 3, 26) = <<"1">>
    /\ Cell(sheet, 4, 26) = <<"9">>

\* A visit-count cell that is blank or a non-negative integer in decimal digits.
IsCount(text) == \A i \in 1..Len(text) : IsDigit(text[i])

\* Every data row's visit-count cell of sheet s is blank or a non-negative
\* integer (nothing to say of a sheet without the column).
CountsValid(s) ==
    HasBothHeaders(s)
    => \A r \in 2..Len(s) : IsCount(Cell(s, r, ColOf(s, hdrVisitCount)))

\* C10 (as amended): an attend request never persists a negative or
\* non-numeric visit count where there was none: it writes one cell, with an
\* integer of at least 1 whenever the cell it read was blank, missing,
\* non-numeric or a non-negative integer, so a sheet whose visit counts are all
\* blank or non-negative integers stays so under attend requests.  A create
\* request persists the 'Visit Count' of its body unvalidated ("0" when
\* absent), so it can persist a negative or non-numeric count.
C10_AttendKeepsCountsValid ==
    [][ /\ (reqs' # reqs /\ CountsValid(sheet)) => CountsValid(sheet')
        /\ (WriteStep /\ fault' = NoFault /\ reqs[1].read >= 0)
           => /\ reqs[1].val >= 1
              /\ IsCount(Cell(sheet', FirstRowOf(sheet, reqs[1].id),
                              ColOf(sheet, hdrVisitCount)))
        /\ CreateStep
           => sheet'[Len(sheet')][13] = Get(resp'.data, "Visit Count", <<"0">>)
       ]_vars

\* C10 witness: a confirmation was answered 'updated' on a sheet that holds a
\* created row, and every visit count of the sheet is blank or a non-negative
\* integer.
C10_Witness ==
    /\ resp.op = "attend" /\ resp.status = "updated"
    /\ Len(sheet) = 2
    /\ sheet[1] = StdHeader
    /\ Cell(sheet, 2, 12) = <<"1">>
    /\ CountsValid(sheet)

\* C10 as stated: whatever the create and attend requests, every data row's
\* visit count stays blank or a non-negative integer.
C10_Original == CountsValid(sheet)

=============================================================================
